---------------------------- MODULE Spec2Model ----------------------------
(***************************************************************************)
(* Model of the playground back end: the code executor service             *)
(* (src/codeexecutor/main.py) and the gateway that proxies requests to it  *)
(* (src/fastapi_app/main.py).                                              *)
(*                                                                         *)
(* Text (Python str) is a sequence of one-character strings, so that the   *)
(* string operations of the source are computed character by character.    *)
(* An Optional value is a sequence of length at most one: <<>> is None and *)
(* <<v>> is the value v.                                                   *)
(***************************************************************************)
EXTENDS Integers, Sequences, FiniteSets, TLC

VARIABLES
    \* ---- request life cycle (gateway, executor, operating system) ----
    req,        \* req[r]: the request r carries (code, language, input_data)
    gw,         \* gw[r]: position of the gateway's execute_code coroutine
    gwResp,     \* gw response sent to the client for r
    pc,         \* pc[r]: position of the executor's handler for r
    loop,       \* the request whose handler occupies the executor's event loop, 0 when free
    exResp,     \* the executor's HTTP response for r
    files,      \* files[r]: the scratch file of r (None when it does not exist)
    child,      \* child[r]: the python3 child process spawned for r
    desc,       \* desc[r]: a process the user's code started from the child
    childStdin, \* childStdin[r]: what the child's standard input is wired to
    childOut,   \* childOut[r]: what the child wrote to stdout and stderr
    outcome,    \* outcome[r]: the path the handler took
    result,     \* result[r]: the tuple execute_python_code is about to return
    \* ---- the source transformer, applied to one input ----
    srcLines,   \* how the input text is made up, line by line
    src,        \* the input text
    prepared,   \* prepare_code_for_execution(src)
    simple,     \* is_simple_expression(src)
    ppc,        \* position of the transformer run
    \* ---- the normal exit of execute_python_code, on one captured output ----
    captured,   \* the stdout and stderr that communicate returned
    returned,   \* the (output, error) returned for them (None before the return)
    opc         \* position of the normal-exit run

lifecycleVars == <<req, gw, gwResp, pc, loop, exResp, files, child, desc,
                   childStdin, childOut, outcome, result>>
prepVars == <<srcLines, src, prepared, simple, ppc>>
outVars == <<captured, returned, opc>>
vars == <<req, gw, gwResp, pc, loop, exResp, files, child, desc,
          childStdin, childOut, outcome, result,
          srcLines, src, prepared, simple, ppc,
          captured, returned, opc>>

None == <<>>
Some(v) == <<v>>

(***************************************************************************)
(* Python str operations                                                   *)
(***************************************************************************)
UpperCase == <<"A","B","C","D","E","F","G","H","I","J","K","L","M",
               "N","O","P","Q","R","S","T","U","V","W","X","Y","Z">>
LowerCase == <<"a","b","c","d","e","f","g","h","i","j","k","l","m",
               "n","o","p","q","r","s","t","u","v","w","x","y","z">>
Digits == {"0","1","2","3","4","5","6","7","8","9"}

\* str.lower(), one character
lower_char(c) ==
    IF \E i \in 1..26 : UpperCase[i] = c
    THEN LowerCase[CHOOSE i \in 1..26 : UpperCase[i] = c]
    ELSE c

\* str.lower()
lower(s) == [i \in 1..Len(s) |-> lower_char(s[i])]

\* the characters str.strip() removes
is_space(c) == c \in {" ", "\t", "\n", "\r"}

\* the characters the regular expression class \w matches
is_word_char(c) ==
    \/ c \in Digits
    \/ c = "_"
    \/ \E i \in 1..26 : UpperCase[i] = c \/ LowerCase[i] = c

\* str.lstrip()
lstrip(s) ==
    LET keep == {i \in 1..Len(s) : ~is_space(s[i])}
    IN  IF keep = {} THEN <<>>
        ELSE SubSeq(s, CHOOSE i \in keep : \A j \in keep : i <= j, Len(s))

\* str.rstrip()
rstrip(s) ==
    LET keep == {i \in 1..Len(s) : ~is_space(s[i])}
    IN  IF keep = {} THEN <<>>
        ELSE SubSeq(s, 1, CHOOSE i \in keep : \A j \in keep : j <= i)

\* str.strip()
strip(s) == lstrip(rstrip(s))

\* sub in s
contains(sub, s) ==
    \E i \in 0..(Len(s) - Len(sub)) : SubSeq(s, i + 1, i + Len(sub)) = sub

\* s.startswith(prefix)
startswith(s, prefix) ==
    Len(prefix) <= Len(s) /\ SubSeq(s, 1, Len(prefix)) = prefix

\* s.endswith(suffix)
endswith(s, suffix) ==
    Len(suffix) <= Len(s) /\ SubSeq(s, Len(s) - Len(suffix) + 1, Len(s)) = suffix

\* s.split(sep) for a one-character separator: the list of the pieces
RECURSIVE split(_, _)
split(s, sep) ==
    LET at == {i \in 1..Len(s) : s[i] = sep}
    IN  IF at = {} THEN <<s>>
        ELSE LET i == CHOOSE i \in at : \A j \in at : i <= j
             IN  <<SubSeq(s, 1, i - 1)>> \o split(SubSeq(s, i + 1, Len(s)), sep)

\* sep.join(pieces)
RECURSIVE join(_, _)
join(pieces, sep) ==
    IF pieces = <<>> THEN <<>>
    ELSE IF Len(pieces) = 1 THEN pieces[1]
    ELSE pieces[1] \o sep \o join(Tail(pieces), sep)

\* [f(x) for x in xs if x.strip()]: the pieces that are not blank
RECURSIVE non_blank(_)
non_blank(pieces) ==
    IF pieces = <<>> THEN <<>>
    ELSE IF strip(pieces[1]) # <<>>
         THEN <<pieces[1]>> \o non_blank(Tail(pieces))
         ELSE non_blank(Tail(pieces))

\* ' ' * n
spaces(n) == [i \in 1..n |-> " "]

\* re.search(r'\w+\s*=', line): a word character, then whitespace, then '='
assignment_pattern(line) ==
    \E i \in 1..Len(line) :
        /\ line[i] = "="
        /\ \E j \in 1..(i - 1) :
              /\ is_word_char(line[j])
              /\ \A k \in (j + 1)..(i - 1) : is_space(line[k])

\* any(line.startswith(keyword) for keyword in keywords)
any_startswith(line, keywords) ==
    \E k \in 1..Len(keywords) : startswith(line, keywords[k])

\* any(op in line for op in ops)
any_contains(line, ops) ==
    \E k \in 1..Len(ops) : contains(ops[k], line)

(***************************************************************************)
(* The expression-print transformer (codeexecutor/main.py, lines 41-179)   *)
(***************************************************************************)
spaced_comparisons == <<<<" ", "=", "=", " ">>, <<" ", "!", "=", " ">>, <<" ", "<", "=", " ">>, <<" ", ">", "=", " ">>>>
comparisons == <<<<" ", "=", "=", " ">>, <<" ", "!", "=", " ">>, <<" ", "<", "=", " ">>, <<" ", ">", "=", " ">>,
                 <<"=", "=">>, <<"!", "=">>, <<"<", "=">>, <<">", "=">>>>
import_keywords == <<<<"i", "m", "p", "o", "r", "t", " ">>, <<"f", "r", "o", "m", " ">>>>
definition_keywords == <<<<"d", "e", "f", " ">>, <<"c", "l", "a", "s", "s", " ">>>>
simple_control_keywords ==
    <<<<"i", "f", " ">>, <<"f", "o", "r", " ">>, <<"w", "h", "i", "l", "e", " ">>, <<"t", "r", "y", ":">>, <<"e", "x", "c", "e", "p", "t">>, <<"w", "i", "t", "h", " ">>>>
line_control_keywords ==
    <<<<"i", "f", " ">>, <<"f", "o", "r", " ">>, <<"w", "h", "i", "l", "e", " ">>, <<"t", "r", "y", ":">>, <<"e", "x", "c", "e", "p", "t">>, <<"w", "i", "t", "h", " ">>,
      <<"e", "l", "s", "e", ":">>, <<"e", "l", "i", "f", " ">>>>
transfer_keywords ==
    <<<<"r", "e", "t", "u", "r", "n">>, <<"y", "i", "e", "l", "d">>, <<"b", "r", "e", "a", "k">>, <<"c", "o", "n", "t", "i", "n", "u", "e">>, <<"p", "a", "s", "s">>, <<"r", "a", "i", "s", "e">>>>

\* the list `lines` of is_simple_expression: the stripped non-blank lines of code.strip()
simple_lines(code) ==
    LET kept == non_blank(split(strip(code), "\n"))
    IN  [i \in 1..Len(kept) |-> strip(kept[i])]

\* the checks is_simple_expression makes on its single line
simple_line_ok(line) ==
    /\ ~contains(<<"p", "r", "i", "n", "t", "(">>, lower(line))
    /\ ~(/\ contains(<<"=">>, line)
         /\ ~startswith(strip(line), <<"=">>)
         /\ ~any_contains(line, spaced_comparisons))
    /\ ~any_startswith(line, import_keywords)
    /\ ~any_startswith(line, definition_keywords)
    /\ ~any_startswith(line, simple_control_keywords)
    /\ ~any_startswith(line, transfer_keywords)

is_simple_expression(code) ==
    LET lines == simple_lines(code)
    IN  /\ Len(lines) = 1
        /\ simple_line_ok(lines[1])

\* the assignment test of is_expression_line: TRUE when the line is taken
\* for an assignment
looks_like_assignment(line) ==
    /\ contains(<<"=">>, line)
    /\ ~any_contains(line, comparisons)
    /\ assignment_pattern(line)
    /\ ~contains(<<"(">>, split(line, "=")[1])

is_expression_line(raw) ==
    LET line == strip(raw)
    IN  /\ line # <<>>
        /\ ~contains(<<"p", "r", "i", "n", "t", "(">>, lower(line))
        /\ ~looks_like_assignment(line)
        /\ ~any_startswith(line, import_keywords)
        /\ ~any_startswith(line, definition_keywords)
        /\ ~any_startswith(line, line_control_keywords)
        /\ ~any_startswith(line, transfer_keywords)

\* f"{indent_str}_result = {last_line_stripped}\n{indent_str}print(_result)"
wrapped_expression(indent_str, expression) ==
    indent_str \o <<"_", "r", "e", "s", "u", "l", "t", " ", "=", " ">> \o expression \o <<"\n">>
        \o indent_str \o <<"p", "r", "i", "n", "t", "(", "_", "r", "e", "s", "u", "l", "t", ")">>

\* the multi-line path of prepare_code_for_execution
prepare_last_line(code, lines) ==
    LET filled == {i \in 1..Len(lines) : strip(lines[i]) # <<>>}
        last_non_empty_idx == CHOOSE i \in filled : \A j \in filled : j <= i
        original_last_line == lines[last_non_empty_idx]
        last_line_stripped == strip(original_last_line)
        indent == Len(original_last_line) - Len(lstrip(original_last_line))
        code_before_last == join(SubSeq(lines, 1, last_non_empty_idx - 1), <<"\n">>)
        wrapped == wrapped_expression(spaces(indent), last_line_stripped)
    IN  IF is_expression_line(last_line_stripped)
        THEN IF strip(code_before_last) # <<>>
             THEN code_before_last \o <<"\n">> \o wrapped
             ELSE wrapped
        ELSE code

prepare_code_for_execution(code) ==
    LET pieces == split(rstrip(code), "\n")
        lines == [i \in 1..Len(pieces) |-> rstrip(pieces[i])]
    IN  IF non_blank(lines) = <<>> THEN code
        ELSE IF is_simple_expression(code)
             THEN <<"_", "r", "e", "s", "u", "l", "t", " ", "=", " ">> \o code \o <<"\n", "p", "r", "i", "n", "t", "(", "_", "r", "e", "s", "u", "l", "t", ")">>
             ELSE prepare_last_line(code, lines)

(***************************************************************************)
(* Inputs of the transformer: texts made of at most MaxLines lines, each   *)
(* an indentation, a statement and trailing whitespace, or a blank line.   *)
(* Each statement carries what it is in Python (its tag), whatever the     *)
(* heuristics of the source make of it.                                    *)
(***************************************************************************)
MaxLines == 2

Statements ==
    << [text |-> <<"5", "+", "1">>,      tag |-> "Expression"],
       [text |-> <<"x", " ", "=", " ", "5">>,    tag |-> "Assignment"],
       [text |-> <<"5", " ", "=", "=", " ", "5">>,   tag |-> "Expression"],
       [text |-> <<"x", "=", "=", "5">>,     tag |-> "Expression"],
       [text |-> <<"p", "r", "i", "n", "t", "(", "x", ")">>, tag |-> "PrintCall"],
       [text |-> <<"p", "a", "s", "s", "x">>,    tag |-> "Expression"],
       [text |-> <<"p", "a", "s", "s">>,     tag |-> "ControlTransfer"],
       [text |-> <<"i", "m", "p", "o", "r", "t", " ", "r", "e">>, tag |-> "Import"],
       [text |-> <<"i", "f", " ", "x", ":">>,    tag |-> "BlockOpener"],
       [text |-> <<"d", "e", "f", " ", "f", "(", ")", ":", " ", "p", "a", "s", "s">>, tag |-> "Definition"],
       [text |-> <<"f", "(", "a", "=", "1", ")">>,   tag |-> "Expression"],
       [text |-> <<"x", " ", "+", "=", " ", "1">>,   tag |-> "Assignment"] >>

Indents == {<<>>, <<"\t">>}
Trails == {<<>>, <<" ">>}

\* stmt = 0 is a blank line
InputLines ==
    [indent : Indents, stmt : 1..Len(Statements), trail : Trails]
        \cup [indent : {<<>>}, stmt : {0}, trail : Trails]

InputTexts == UNION {[1..n -> InputLines] : n \in 1..MaxLines}

line_text(l) ==
    IF l.stmt = 0 THEN l.trail
    ELSE l.indent \o Statements[l.stmt].text \o l.trail

render(ls) == join([i \in 1..Len(ls) |-> line_text(ls[i])], <<"\n">>)

(***************************************************************************)
(* Requests                                                                *)
(***************************************************************************)
NumRequests == 2
Requests == 1..NumRequests

RequestCodes == {<<"5", "+", "1">>, <<"E", "V", "A", "L", "(", "x", ")">>, <<"i", "m", "p", "o", "r", "t", " ", "s", "u", "b", "p", "r", "o", "c", "e", "s", "s">>}
RequestLanguages == {<<"p", "y", "t", "h", "o", "n">>, <<"r", "u", "b", "y">>}
RequestInputs == {None, Some(<<>>), Some(<<"a">>)}

\* what the child may have written when it exits
ChildOutputs ==
    { [stdout |-> <<"6", "\n">>, stderr |-> ""],
      [stdout |-> <<>>,    stderr |-> "Traceback (most recent call last)"] }

NoRequest == [code |-> <<>>, language |-> <<>>, input_data |-> None]
NoResponse == [status |-> 0, output |-> <<>>, error |-> None, detail |-> None]
NoOutput == [stdout |-> <<>>, stderr |-> ""]

\* Python truthiness of an Optional[str]: None and "" are false
truthy(opt) == opt # None /\ opt[1] # <<>>

(***************************************************************************)
(* The security gate of the executor's execute_code (lines 268-292)        *)
(***************************************************************************)
dangerous_patterns ==
    << <<"_", "_", "i", "m", "p", "o", "r", "t", "_", "_">>, <<"e", "v", "a", "l", "(">>, <<"e", "x", "e", "c", "(">>, <<"c", "o", "m", "p", "i", "l", "e", "(">>, <<"o", "p", "e", "n", "(">>,
       <<"f", "i", "l", "e", "(">>, <<"i", "n", "p", "u", "t", "(">>, <<"r", "a", "w", "_", "i", "n", "p", "u", "t", "(">>, <<"s", "u", "b", "p", "r", "o", "c", "e", "s", "s">>, <<"o", "s", ".", "s", "y", "s", "t", "e", "m">>,
       <<"o", "s", ".", "p", "o", "p", "e", "n">>, <<"i", "m", "p", "o", "r", "t", " ", "o", "s">>, <<"i", "m", "p", "o", "r", "t", " ", "s", "u", "b", "p", "r", "o", "c", "e", "s", "s">>, <<"i", "m", "p", "o", "r", "t", " ", "s", "y", "s">> >>

\* the loop over dangerous_patterns on text: the first pattern found, or None
first_pattern_in(text) ==
    LET hits == {k \in 1..Len(dangerous_patterns) :
                    contains(dangerous_patterns[k], text)}
    IN  IF hits = {} THEN None
        ELSE Some(dangerous_patterns[CHOOSE k \in hits : \A j \in hits : k <= j])

\* a scan that matches the patterns against the text as submitted
scan_no_fold(code) == first_pattern_in(code)

\* code_lower = request.code.lower() and the scan of it
scan(code) == first_pattern_in(lower(code))

(***************************************************************************)
(* Output normalisation of execute_python_code (lines 222-228)             *)
(***************************************************************************)
MAX_OUTPUT_SIZE == 1048576

\* str.rstrip('\n')
RECURSIVE rstrip_newlines(_)
rstrip_newlines(s) ==
    IF s # <<>> /\ s[Len(s)] = "\n"
    THEN rstrip_newlines(SubSeq(s, 1, Len(s) - 1))
    ELSE s

normalize_stdout(stdout) ==
    LET stripped == IF endswith(stdout, <<"\n">>) /\ Len(stdout) > 1
                    THEN rstrip_newlines(stdout)
                    ELSE stdout
    IN  IF stripped # <<>> /\ Len(stripped) > MAX_OUTPUT_SIZE
        THEN SubSeq(stripped, 1, MAX_OUTPUT_SIZE) \o <<"\n", ".", ".", ".", " ", "(", "o", "u", "t", "p", "u", "t", " ", "t", "r", "u", "n", "c", "a", "t", "e", "d", ")">>
        ELSE stripped

(***************************************************************************)
(* Initial state: both services running, no request made                   *)
(***************************************************************************)
InitLifecycle ==
    /\ req = [r \in Requests |-> NoRequest]
    /\ gw = [r \in Requests |-> "idle"]
    /\ gwResp = [r \in Requests |-> NoResponse]
    /\ pc = [r \in Requests |-> "none"]
    /\ loop = 0
    /\ exResp = [r \in Requests |-> NoResponse]
    /\ files = [r \in Requests |-> None]
    /\ child = [r \in Requests |-> "none"]
    /\ desc = [r \in Requests |-> "none"]
    /\ childStdin = [r \in Requests |-> "none"]
    /\ childOut = [r \in Requests |-> NoOutput]
    /\ outcome = [r \in Requests |-> "none"]
    /\ result = [r \in Requests |-> None]

\* no normal-exit run under way
InitOutIdle ==
    /\ captured = NoOutput
    /\ returned = None
    /\ opc = "idle"

\* no transformer run under way
InitPrepIdle ==
    /\ srcLines = <<>>
    /\ src = <<>>
    /\ prepared = <<>>
    /\ simple = FALSE
    /\ ppc = "idle"

Init ==
    /\ InitLifecycle
    /\ InitPrepIdle
    /\ InitOutIdle

(***************************************************************************)
(* Gateway: execute_code of fastapi_app/main.py                            *)
(***************************************************************************)
\* a client posts request r; the gateway forwards it and awaits the answer
gateway_post(r) ==
    /\ gw[r] = "idle"
    /\ \E code \in RequestCodes, language \in RequestLanguages,
          input_data \in RequestInputs :
            req' = [req EXCEPT ![r] = [code |-> code, language |-> language,
                                       input_data |-> input_data]]
    /\ gw' = [gw EXCEPT ![r] = "posting"]
    /\ pc' = [pc EXCEPT ![r] = "queued"]
    /\ UNCHANGED <<gwResp, loop, exResp, files, child, desc, childStdin,
                   childOut, outcome, result>>
    /\ UNCHANGED prepVars
    /\ UNCHANGED outVars

\* HTTPException(status_code=503, detail=f"CodeExecutor service unavailable: ...")
service_unavailable ==
    [status |-> 503, output |-> <<>>, error |-> None,
     detail |-> Some([message |-> "CodeExecutor service unavailable: ",
                      about |-> <<>>])]

\* the post fails before the executor takes the request (httpx.HTTPError)
gateway_transport_error(r) ==
    /\ gw[r] = "posting"
    /\ pc[r] = "queued"
    /\ pc' = [pc EXCEPT ![r] = "none"]
    /\ gwResp' = [gwResp EXCEPT ![r] = service_unavailable]
    /\ gw' = [gw EXCEPT ![r] = "done"]
    /\ UNCHANGED <<req, loop, exResp, files, child, desc, childStdin,
                   childOut, outcome, result>>
    /\ UNCHANGED prepVars
    /\ UNCHANGED outVars

\* raise_for_status() and return response.json(), given the executor's response
gateway_response(response) ==
    IF response.status >= 400
    THEN service_unavailable
    ELSE response

\* the executor's response arrives
gateway_respond(r) ==
    /\ gw[r] = "posting"
    /\ pc[r] = "responded"
    /\ gwResp' = [gwResp EXCEPT ![r] = gateway_response(exResp[r])]
    /\ gw' = [gw EXCEPT ![r] = "done"]
    /\ UNCHANGED <<req, pc, loop, exResp, files, child, desc, childStdin,
                   childOut, outcome, result>>
    /\ UNCHANGED prepVars
    /\ UNCHANGED outVars

(***************************************************************************)
(* Executor: execute_code and execute_python_code of codeexecutor/main.py  *)
(* The handler is a coroutine that never awaits: from the moment the event *)
(* loop starts it until it returns or raises, the loop runs nothing else.  *)
(***************************************************************************)
\* HTTPException(status_code=400, detail=f"...{about}...")
rejected(message, about) ==
    [status |-> 400, output |-> <<>>, error |-> None,
     detail |-> Some([message |-> message, about |-> about])]

\* the language check and the denylist scan: reject, or go on to execute
execute_code_validate(r) ==
    /\ pc[r] = "queued"
    /\ loop = 0
    /\ IF req[r].language # <<"p", "y", "t", "h", "o", "n">>
       THEN /\ exResp' = [exResp EXCEPT ![r] =
                            rejected("Language is not supported yet. Only 'python' is supported.",
                                     req[r].language)]
            /\ outcome' = [outcome EXCEPT ![r] = "unsupported_language"]
            /\ pc' = [pc EXCEPT ![r] = "responded"]
            /\ UNCHANGED loop
       ELSE IF scan(req[r].code) # None
       THEN /\ exResp' = [exResp EXCEPT ![r] =
                            rejected("Code contains restricted operations: ",
                                     scan(req[r].code)[1])]
            /\ outcome' = [outcome EXCEPT ![r] = "rejected_pattern"]
            /\ pc' = [pc EXCEPT ![r] = "responded"]
            /\ UNCHANGED loop
       ELSE /\ pc' = [pc EXCEPT ![r] = "validated"]
            /\ loop' = r
            /\ UNCHANGED <<exResp, outcome>>
    /\ UNCHANGED <<req, gw, gwResp, files, child, desc, childStdin,
                   childOut, result>>
    /\ UNCHANGED prepVars
    /\ UNCHANGED outVars

\* the answer to a request whose handler raised something else than HTTPException
internal_server_error ==
    [status |-> 500, output |-> <<>>, error |-> None,
     detail |-> Some([message |-> "Internal Server Error", about |-> <<>>])]

\* prepare the code and write it to a new scratch file (outside the try)
execute_python_code_write(r) ==
    /\ pc[r] = "validated"
    /\ \E io \in {"ok", "create_failed", "write_failed"} :
          IF io = "ok"
          THEN /\ files' = [files EXCEPT ![r] =
                              Some(prepare_code_for_execution(req[r].code))]
               /\ pc' = [pc EXCEPT ![r] = "written"]
               /\ UNCHANGED <<exResp, outcome, loop>>
          ELSE \* the exception leaves execute_python_code and the handler
               /\ files' = [files EXCEPT ![r] =
                              IF io = "write_failed" THEN Some(<<>>) ELSE None]
               /\ exResp' = [exResp EXCEPT ![r] = internal_server_error]
               /\ outcome' = [outcome EXCEPT ![r] = io]
               /\ pc' = [pc EXCEPT ![r] = "responded"]
               /\ loop' = 0
    /\ UNCHANGED <<req, gw, gwResp, child, desc, childStdin, childOut, result>>
    /\ UNCHANGED prepVars
    /\ UNCHANGED outVars

\* stdin=subprocess.PIPE if input_data else None
stdin_wiring(input_data) ==
    IF truthy(input_data) THEN "pipe" ELSE "inherited"

execution_error(cause) ==
    Some([output |-> <<>>, error |-> Some("Execution error: " \o cause)])

\* subprocess.Popen(["python3", temp_file], ...)
execute_python_code_spawn(r) ==
    /\ pc[r] = "written"
    /\ \E spawned \in BOOLEAN :
          IF spawned
          THEN /\ child' = [child EXCEPT ![r] = "running"]
               /\ childStdin' = [childStdin EXCEPT ![r] =
                                   stdin_wiring(req[r].input_data)]
               /\ pc' = [pc EXCEPT ![r] = "communicate"]
               /\ UNCHANGED <<result, outcome>>
          ELSE /\ result' = [result EXCEPT ![r] = execution_error("OSError")]
               /\ outcome' = [outcome EXCEPT ![r] = "spawn_failed"]
               /\ pc' = [pc EXCEPT ![r] = "finally"]
               /\ UNCHANGED <<child, childStdin>>
    /\ UNCHANGED <<req, gw, gwResp, loop, exResp, files, desc, childOut>>
    /\ UNCHANGED prepVars
    /\ UNCHANGED outVars

\* the outcome of process.kill(); process.wait() on the processes of r:
\* the child is killed and reaped, nothing else is signalled
kill_and_wait(childState, descState) ==
    [child |-> "reaped", desc |-> descState]

\* process.communicate(input=stdin_data, timeout=MAX_EXECUTION_TIME) and
\* what follows it, up to the return statement
execute_python_code_communicate(r) ==
    /\ pc[r] = "communicate"
    /\ IF truthy(req[r].input_data)
       THEN \* stdin_data is bytes and the pipe is a text stream: communicate raises
            /\ result' = [result EXCEPT ![r] = execution_error(
                             "'bytes' object has no attribute 'encode'")]
            /\ outcome' = [outcome EXCEPT ![r] = "communicate_failed"]
            /\ UNCHANGED <<child, desc>>
       ELSE \E event \in {"exited", "deadline", "io_error"} :
              CASE event = "exited" ->
                     /\ child[r] = "exited"
                     /\ child' = [child EXCEPT ![r] = "reaped"]
                     /\ result' = [result EXCEPT ![r] = Some(
                            [output |-> normalize_stdout(childOut[r].stdout),
                             error |-> IF childOut[r].stderr # ""
                                       THEN Some(childOut[r].stderr)
                                       ELSE None])]
                     /\ outcome' = [outcome EXCEPT ![r] = "completed"]
                     /\ UNCHANGED desc
                [] event = "deadline" ->
                     \* the pipes are still open: the child runs, or a
                     \* descendant holds them
                     /\ child[r] = "running" \/ desc[r] = "running"
                     /\ LET after == kill_and_wait(child[r], desc[r])
                        IN  /\ child' = [child EXCEPT ![r] = after.child]
                            /\ desc' = [desc EXCEPT ![r] = after.desc]
                     /\ result' = [result EXCEPT ![r] = Some(
                            [output |-> <<>>,
                             error |-> Some("Execution timeout: Code exceeded maximum execution time")])]
                     /\ outcome' = [outcome EXCEPT ![r] = "timeout"]
                [] event = "io_error" ->
                     \* any other exception of communicate: except Exception
                     /\ result' = [result EXCEPT ![r] = execution_error("OSError")]
                     /\ outcome' = [outcome EXCEPT ![r] = "communicate_failed"]
                     /\ UNCHANGED <<child, desc>>
    /\ pc' = [pc EXCEPT ![r] = "finally"]
    /\ UNCHANGED <<req, gw, gwResp, loop, exResp, files, childStdin, childOut>>
    /\ UNCHANGED prepVars
    /\ UNCHANGED outVars

\* finally: os.unlink(temp_file), any failure ignored; then the handler
\* returns ExecuteResponse(output, error, execution_time)
execute_python_code_finally(r) ==
    /\ pc[r] = "finally"
    /\ \E unlinked \in BOOLEAN :
          files' = [files EXCEPT ![r] = IF unlinked THEN None ELSE @]
    /\ exResp' = [exResp EXCEPT ![r] =
                    [status |-> 200, output |-> result[r][1].output,
                     error |-> result[r][1].error, detail |-> None]]
    /\ pc' = [pc EXCEPT ![r] = "responded"]
    /\ loop' = 0
    /\ UNCHANGED <<req, gw, gwResp, child, desc, childStdin, childOut,
                   outcome, result>>
    /\ UNCHANGED prepVars
    /\ UNCHANGED outVars

(***************************************************************************)
(* The operating system: the processes of a request                        *)
(***************************************************************************)
\* the user's code starts a process of its own
child_fork(r) ==
    /\ child[r] = "running"
    /\ desc[r] = "none"
    /\ desc' = [desc EXCEPT ![r] = "running"]
    /\ UNCHANGED <<req, gw, gwResp, pc, loop, exResp, files, child,
                   childStdin, childOut, outcome, result>>
    /\ UNCHANGED prepVars
    /\ UNCHANGED outVars

\* the child exits (of itself, or killed by a resource limit)
child_exit(r) ==
    /\ child[r] = "running"
    /\ child' = [child EXCEPT ![r] = "exited"]
    /\ \E out \in ChildOutputs : childOut' = [childOut EXCEPT ![r] = out]
    /\ UNCHANGED <<req, gw, gwResp, pc, loop, exResp, files, desc,
                   childStdin, outcome, result>>
    /\ UNCHANGED prepVars
    /\ UNCHANGED outVars

\* the process the user's code started exits
desc_exit(r) ==
    /\ desc[r] = "running"
    /\ desc' = [desc EXCEPT ![r] = "exited"]
    /\ UNCHANGED <<req, gw, gwResp, pc, loop, exResp, files, child,
                   childStdin, childOut, outcome, result>>
    /\ UNCHANGED prepVars
    /\ UNCHANGED outVars

Next ==
    \E r \in Requests :
        \/ gateway_post(r)
        \/ gateway_transport_error(r)
        \/ gateway_respond(r)
        \/ execute_code_validate(r)
        \/ execute_python_code_write(r)
        \/ execute_python_code_spawn(r)
        \/ execute_python_code_communicate(r)
        \/ execute_python_code_finally(r)
        \/ child_fork(r)
        \/ child_exit(r)
        \/ desc_exit(r)

Spec == Init /\ [][Next]_vars

(***************************************************************************)
(* The transformer run on one input                                        *)
(***************************************************************************)
InitPrep ==
    /\ InitLifecycle
    /\ srcLines \in InputTexts
    /\ src = render(srcLines)
    /\ prepared = <<>>
    /\ simple = FALSE
    /\ ppc = "ready"
    /\ InitOutIdle

\* one run of prepare_code_for_execution and is_simple_expression on the input
Prepare ==
    /\ ppc = "ready"
    /\ prepared' = prepare_code_for_execution(src)
    /\ simple' = is_simple_expression(src)
    /\ ppc' = "done"
    /\ UNCHANGED <<srcLines, src>>
    /\ UNCHANGED lifecycleVars
    /\ UNCHANGED outVars

NextPrep == Prepare

SpecPrep == InitPrep /\ [][NextPrep]_vars

(***************************************************************************)
(* The normal exit of execute_python_code (lines 220-233) on one captured  *)
(* output: texts of at most MaxOutputLen characters.                       *)
(***************************************************************************)
MaxOutputLen == 4

OutputChars == {"a", "b", "\n"}
CapturedTexts == UNION {[1..n -> OutputChars] : n \in 0..MaxOutputLen}
CapturedErrors == {"", "Traceback (most recent call last)"}

InitOut ==
    /\ InitLifecycle
    /\ InitPrepIdle
    /\ captured \in [stdout : CapturedTexts, stderr : CapturedErrors]
    /\ returned = None
    /\ opc = "ready"

\* from the return of communicate to the return statement: normalise and
\* limit stdout, give stderr as the error when there is any
NormalExit ==
    /\ opc = "ready"
    /\ returned' = Some([output |-> normalize_stdout(captured.stdout),
                         error |-> IF captured.stderr # ""
                                   THEN Some(captured.stderr)
                                   ELSE None])
    /\ opc' = "done"
    /\ UNCHANGED captured
    /\ UNCHANGED lifecycleVars
    /\ UNCHANGED prepVars

NextOut == NormalExit

SpecOut == InitOut /\ [][NextOut]_vars

(***************************************************************************)
(* Properties                                                              *)
(***************************************************************************)
\* execute_python_code is running for r
in_execute_python_code(r) ==
    pc[r] \in {"validated", "written", "communicate", "finally"}

\* the terminal kind of r in the taxonomy of the specification's section 7
terminal_kind(r) ==
    CASE outcome[r] = "unsupported_language" -> "UnsupportedLanguage"
      [] outcome[r] = "rejected_pattern" -> "RejectedPattern"
      [] outcome[r] = "timeout" -> "Timeout"
      [] outcome[r] \in {"create_failed", "write_failed", "spawn_failed",
                         "communicate_failed"} -> "OrchestrationFailure"
      [] outcome[r] = "completed" ->
            IF result[r] # None /\ result[r][1].error # None
            THEN "RuntimeError" ELSE "Completed"
      [] OTHER -> "None"

\* C1: the scratch file of a call of execute_python_code exists only while
\* that call runs: once the call has returned or raised (and before it
\* starts), the file does not exist.
C1_ScratchFileRemoved ==
    \A r \in Requests : ~in_execute_python_code(r) => files[r] = None

\* C2: no orchestration failure escapes execute_python_code: when the
\* scratch file could not be created or written, the child could not be
\* spawned or communicating with it failed, the call returns empty output
\* and an error message (the handler answers 200 with them), it does not raise.
C2_NoFailureEscapes ==
    \A r \in Requests :
        (pc[r] = "responded" /\ terminal_kind(r) = "OrchestrationFailure")
            => /\ exResp[r].status = 200
               /\ exResp[r].output = <<>>
               /\ exResp[r].error # None

\* C3: once the timeout outcome is produced for a request, no process
\* spawned for it is alive: the child has been killed and waited for, and so
\* has every process the user's code started.
C3_TimeoutKillsProcessGroup ==
    \A r \in Requests :
        outcome[r] = "timeout" => child[r] = "reaped" /\ desc[r] # "running"

\* C4: when the handler of a request that spawned a child has returned, the
\* child has exited and been waited for, on every path (completed, timed
\* out, failed after the spawn).
C4_ChildReapedBeforeReturn ==
    \A r \in Requests :
        (pc[r] = "responded" /\ child[r] # "none") => child[r] = "reaped"

\* C5: while one request waits for its child to exit or for the timeout,
\* the executor can take up another request that has arrived.
C5_WaitDoesNotBlockOthers ==
    \A r, q \in Requests :
        (r # q /\ pc[r] = "communicate" /\ pc[q] = "queued")
            => ENABLED execute_code_validate(q)

\* C6: the status the gateway answers with follows the terminal kind: a
\* client error for RejectedPattern and UnsupportedLanguage, a server error
\* for OrchestrationFailure, a normal response carrying the error text in
\* its error field for Timeout and RuntimeError.
C6_GatewayStatusByKind ==
    \A r \in Requests :
        (gw[r] = "done" /\ pc[r] = "responded") =>
            LET kind == terminal_kind(r)
                status == gwResp[r].status
            IN  /\ kind \in {"RejectedPattern", "UnsupportedLanguage"}
                      => status \in 400..499
                /\ kind = "OrchestrationFailure" => status \in 500..599
                /\ kind \in {"Timeout", "RuntimeError"}
                      => status = 200 /\ gwResp[r].error # None

\* the request names another language than the supported one, or its
\* case-folded code contains a denylisted substring
must_be_rejected(request) ==
    \/ request.language # <<"p", "y", "t", "h", "o", "n">>
    \/ \E k \in 1..Len(dangerous_patterns) :
          contains(dangerous_patterns[k], lower(request.code))

\* C7: a request that must be rejected is never executed: execute_python_code
\* is never entered for it, it has no scratch file and no child process, and
\* once answered it was answered with the client error that names the
\* language or a denylisted pattern.
C7_RejectedNeverExecuted ==
    \A r \in Requests :
        (gw[r] # "idle" /\ must_be_rejected(req[r])) =>
            /\ ~in_execute_python_code(r)
            /\ files[r] = None
            /\ child[r] = "none"
            /\ childStdin[r] = "none"
            /\ result[r] = None
            /\ pc[r] = "responded" =>
                  /\ exResp[r].status = 400
                  /\ exResp[r].detail # None
                  /\ exResp[r].detail[1].about \in
                        {req[r].language} \cup
                        {dangerous_patterns[k] : k \in 1..Len(dangerous_patterns)}

\* a request whose code holds a denylisted word in upper case has been
\* answered with the rejection while another request has its child running
C7_Witness ==
    \E r, q \in Requests :
        /\ req[r].language = <<"p", "y", "t", "h", "o", "n">>
        /\ req[r].code = <<"E", "V", "A", "L", "(", "x", ")">>
        /\ pc[r] = "responded"
        /\ outcome[r] = "rejected_pattern"
        /\ exResp[r].status = 400
        /\ child[q] = "running"

\* C8: the child's standard input is a pipe fed with the request's input
\* when there is one, and the execution then ends in normal completion or
\* timeout; without input the child's standard input is closed.
C8_StdinWiredToInput ==
    \A r \in Requests :
        child[r] # "none" =>
            IF req[r].input_data # None
            THEN /\ childStdin[r] = "pipe"
                 /\ pc[r] \in {"finally", "responded"}
                       => outcome[r] \in {"completed", "timeout"}
            ELSE childStdin[r] = "closed"

\* the index of the last line of the input that is not blank (0 when all are)
last_statement_line ==
    LET filled == {i \in 1..Len(srcLines) : srcLines[i].stmt # 0}
    IN  IF filled = {} THEN 0 ELSE CHOOSE i \in filled : \A j \in filled : j <= i

\* the capture assignment and the print, at the given indentation
capture_and_print(indent, expression) ==
    indent \o <<"_", "r", "e", "s", "u", "l", "t", " ", "=", " ">> \o expression \o <<"\n">> \o indent \o <<"p", "r", "i", "n", "t", "(", "_", "r", "e", "s", "u", "l", "t", ")">>

\* C9: for a multi-line input whose final non-blank line is a bare
\* expression, the result is the preceding lines exactly as given, followed
\* by the capture assignment and the print at the final line's indentation.
C9_PrecedingLinesVerbatim ==
    (ppc = "done" /\ Len(srcLines) >= 2 /\ last_statement_line # 0) =>
        LET k == last_statement_line
            final == srcLines[k]
            before == IF k = 1 THEN <<>>
                      ELSE render(SubSeq(srcLines, 1, k - 1)) \o <<"\n">>
        IN  Statements[final.stmt].tag = "Expression" =>
                startswith(prepared,
                           before \o capture_and_print(
                               final.indent, Statements[final.stmt].text))

\* C10: a single-line input that is an expression (no assignment, print
\* call, import, definition, block opener or control transfer) is a simple
\* expression and is rewritten to '_result = <line>' and 'print(_result)';
\* a single-line assignment or print call is returned unchanged.
C10_SingleLineExpressionWrapped ==
    (ppc = "done" /\ Len(srcLines) = 1 /\ srcLines[1].stmt # 0) =>
        LET tag == Statements[srcLines[1].stmt].tag
        IN  /\ tag = "Expression" =>
                /\ simple
                /\ prepared = <<"_", "r", "e", "s", "u", "l", "t", " ", "=", " ">> \o src \o <<"\n", "p", "r", "i", "n", "t", "(", "_", "r", "e", "s", "u", "l", "t", ")">>
            /\ tag \in {"Assignment", "PrintCall"} => prepared = src

\* the text without its last character when that is a newline, else the text
without_one_newline(text) ==
    IF text # <<>> /\ text[Len(text)] = "\n"
    THEN SubSeq(text, 1, Len(text) - 1)
    ELSE text

\* C11: on normal exit the returned output is the captured stdout with one
\* trailing newline removed when there is one, and unchanged otherwise; a
\* captured stdout of two characters or more (several newlines, several
\* lines) never comes back as the empty string.  A captured stdout that is
\* the lone newline, which the source keeps as it is, is not judged here.
C11_OneTrailingNewlineRemoved ==
    (opc = "done" /\ Len(captured.stdout) # 1) =>
        /\ returned[1].output = without_one_newline(captured.stdout)
        /\ Len(captured.stdout) >= 2 => returned[1].output # <<>>

=============================================================================
